---- MODULE Spec2Model ----
(***************************************************************************)
(* Model of polako_common.messaging: RabbitMQClient (rabbitmq_client.py)   *)
(* and ContractValidator (contract_validator.py).                          *)
(*                                                                         *)
(* The client's fields are the variables of the same name.  The broker     *)
(* side (aio_pika objects) is the sequence conns: entry n is the           *)
(* connection made by the n-th successful connect_robust, with the         *)
(* channel, exchange and queue opened on it.  A client handle is the index *)
(* of the connection its object lives on, 0 for Python's None.             *)
(*                                                                         *)
(* The contracts directory is the function disk, from the path of a file   *)
(* to what opening and parsing it gives; a path is the sequence of its     *)
(* components below contracts_dir.                                         *)
(***************************************************************************)
EXTENDS Integers, Sequences, FiniteSets, TLC

\* ------------------------------------------------------------------ bounds
MaxConnects == 2      \* connections the broker accepts in one behaviour
MaxPublished == 1     \* messages placed on the wire in one behaviour
MaxDeliveries == 2    \* deliveries handed to the consumer callback
MaxConsumers == 1     \* consumers registered on one queue
MaxSubscriptions == 2 \* the same, where start_consuming() is called again
MaxUnacked == 11      \* unsettled deliveries on one channel
MaxTasks == 2         \* API calls running concurrently

\* -------------------------------------------------------- program constants
PrefetchCount == 10   \* set_qos(prefetch_count=10)

None == "None"

\* ---------------------------------------------------------------- inputs
MsgTypes == {"test_type", "SuccessEmail"}
Handlers == {"h1", "h2"}
RoutingKeys == {"test.route"}
ContractTypes == {"SuccessEmail", "successemail"}

VARIABLES
    queue_name,        \* constructor argument, None when not given
    routing_key,       \* constructor argument, None when not given
    connection,        \* self.connection
    channel,           \* self.channel
    exchange,          \* self.exchange
    queue,             \* self.queue
    is_connected,      \* self._is_connected
    message_handlers,  \* self.message_handlers
    conns,             \* broker side: the connections made so far
    wire,              \* messages the exchange accepted, in order
    deliveries,        \* deliveries handed to _process_message
    last,              \* the last API call: arguments, whether the client held an
                       \* open connection when it began, library calls, exception
    schema_cache,      \* self.schema_cache of the ContractValidator
    disk,              \* the files below contracts_dir
    vlast,             \* the last call of the validator: arguments, files
                       \* opened, what it returned or raised
    resolved,          \* per message type, the schema get_message_schema
                       \* returned last and the lookup that gave it
    tasks              \* the API calls running as asyncio tasks: the awaited
                       \* call each is suspended at and the object it is on

client == <<connection, channel, exchange, queue, is_connected>>
config == <<queue_name, routing_key>>
validator == <<schema_cache, disk, vlast, resolved>>
vars == <<queue_name, routing_key, connection, channel, exchange, queue,
          is_connected, message_handlers, conns, wire, deliveries, last,
          schema_cache, disk, vlast, resolved, tasks>>

\* ------------------------------------------------------- python helpers
\* dict.get(key): the value, or None when the key is absent
Get(d, k) == IF k \in DOMAIN d THEN d[k] ELSE None

\* truthiness of an optional string: None and "" are falsy
Truthy(x) == x # None /\ x # ""

Count(s, x) == Cardinality({i \in DOMAIN s : s[i] = x})

\* ------------------------------------------------ broker side (aio_pika)
\* The arguments of the declarations connect() makes.
\* declare_exchange(self.exchange_name, ExchangeType.TOPIC, durable=True)
ExchangeArgs == [type |-> "topic", durable |-> TRUE]
\* declare_queue(self.queue_name, arguments={"x-queue-type": "quorum"},
\*               durable=True, auto_delete=False)
QueueArgs == [queue_type |-> "quorum", durable |-> TRUE, auto_delete |-> FALSE]
Undeclared == [durable |-> FALSE]

\* A connection as connect_robust returns it: open, nothing on it yet.
NewConnection == [open |-> TRUE, channel |-> FALSE, prefetch |-> 0,
                  exchange |-> FALSE, queue |-> FALSE, bound |-> FALSE,
                  consumers |-> 0, unacked |-> <<>>,
                  exchange_args |-> Undeclared, queue_args |-> Undeclared]

\* A closed connection: its channel, and the consumers on it, are gone.
ClosedConnection == [open |-> FALSE, channel |-> FALSE, prefetch |-> 0,
                     exchange |-> FALSE, queue |-> FALSE, bound |-> FALSE,
                     consumers |-> 0, unacked |-> <<>>,
                     exchange_args |-> Undeclared, queue_args |-> Undeclared]

\* unacked has, for each consumer of the connection's channel, the number of
\* its deliveries that are neither acknowledged nor rejected yet.
RECURSIVE SumOf(_)
SumOf(seq) == IF seq = <<>> THEN 0 ELSE seq[1] + SumOf(Tail(seq))

\* basic.qos as set_qos(prefetch_count=n) sends it (global_ False): RabbitMQ
\* applies the window to each consumer of the channel separately; 0 is no
\* window.
WindowOpen(c, k) == c.prefetch = 0 \/ c.unacked[k] < c.prefetch

\* Is handle h (0 = None) an object on a connection that is still open?
Live(cs, h) == h \in DOMAIN cs /\ cs[h].open

\* ------------------------------------------------------ the running call
\* One API call runs on a record w: the client's fields, the broker, the
\* library calls issued so far (calls) and the exception raised (error).
World == [connection |-> connection, channel |-> channel, exchange |-> exchange,
          queue |-> queue, is_connected |-> is_connected, conns |-> conns,
          wire |-> wire, calls |-> <<>>, error |-> None]

Call(w, name) == [w EXCEPT !.calls = Append(@, name)]
Raise(w, exc) == [w EXCEPT !.error = exc]

\* ----------------------------------------------------------- connect()
\* failAt names the awaited step that raises: 0 none, 1 connect_robust,
\* 2 connection.channel, 3 channel.set_qos, 4 channel.declare_exchange,
\* 5 channel.declare_queue, 6 queue.bind.
\* self.connection = await connect_robust(...)
OpenConnection(w, failAt) ==
    IF failAt = 1 THEN Raise(Call(w, "connect_robust"), "ConnectionError")
    ELSE [Call(w, "connect_robust") EXCEPT
            !.conns = Append(@, NewConnection),
            !.connection = Len(w.conns) + 1]

\* self.channel = await self.connection.channel()
OpenChannel(w, failAt) ==
    IF w.error # None THEN w
    ELSE IF failAt = 2 \/ ~Live(w.conns, w.connection)
    THEN Raise(Call(w, "connection.channel"), "ChannelError")
    ELSE [Call(w, "connection.channel") EXCEPT
            !.conns[w.connection].channel = TRUE,
            !.channel = w.connection]

\* await self.channel.set_qos(prefetch_count=10)
SetQos(w, failAt) ==
    IF w.error # None THEN w
    ELSE IF failAt = 3 \/ ~Live(w.conns, w.channel)
    THEN Raise(Call(w, "channel.set_qos"), "ChannelError")
    ELSE [Call(w, "channel.set_qos") EXCEPT
            !.conns[w.channel].prefetch = PrefetchCount]

\* self.exchange = await self.channel.declare_exchange(name, TOPIC, durable=True)
DeclareExchange(w, failAt) ==
    IF w.error # None THEN w
    ELSE IF failAt = 4 \/ ~Live(w.conns, w.channel)
    THEN Raise(Call(w, "channel.declare_exchange"), "ChannelError")
    ELSE [Call(w, "channel.declare_exchange") EXCEPT
            !.conns[w.channel].exchange = TRUE,
            !.conns[w.channel].exchange_args = ExchangeArgs,
            !.exchange = w.channel]

\* DeclareQueue gone wrong: the queue is declared whether or not a queue name
\* was configured.
DeclareQueueAlways(w, failAt) ==
    IF w.error # None THEN w
    ELSE IF failAt = 5 \/ ~Live(w.conns, w.channel)
    THEN Raise(Call(w, "channel.declare_queue"), "ChannelError")
    ELSE [Call(w, "channel.declare_queue") EXCEPT
            !.conns[w.channel].queue = TRUE,
            !.conns[w.channel].queue_args = QueueArgs,
            !.queue = w.channel]

\* if self.queue_name: self.queue = await self.channel.declare_queue(...)
DeclareQueue(w, failAt) ==
    IF w.error # None \/ ~Truthy(queue_name) THEN w
    ELSE IF failAt = 5 \/ ~Live(w.conns, w.channel)
    THEN Raise(Call(w, "channel.declare_queue"), "ChannelError")
    ELSE [Call(w, "channel.declare_queue") EXCEPT
            !.conns[w.channel].queue = TRUE,
            !.conns[w.channel].queue_args = QueueArgs,
            !.queue = w.channel]

\* if self.routing_key: await self.queue.bind(exchange, routing_key)
BindQueue(w, failAt) ==
    IF w.error # None \/ ~Truthy(queue_name) \/ ~Truthy(routing_key) THEN w
    ELSE IF failAt = 6 \/ ~Live(w.conns, w.queue)
    THEN Raise(Call(w, "queue.bind"), "ChannelError")
    ELSE [Call(w, "queue.bind") EXCEPT !.conns[w.queue].bound = TRUE]

\* self._is_connected = True, or the except clause: False and re-raise
ConnectEnd(w) == [w EXCEPT !.is_connected = (w.error = None)]

connect(w, failAt) ==
    ConnectEnd(BindQueue(DeclareQueue(DeclareExchange(SetQos(OpenChannel(
        OpenConnection(w, failAt), failAt), failAt), failAt), failAt), failAt))

\* The steps connect() reaches with this configuration.
StepsOf == {0, 1, 2, 3, 4} \cup (IF Truthy(queue_name) THEN {5} ELSE {})
             \cup (IF Truthy(queue_name) /\ Truthy(routing_key) THEN {6} ELSE {})

\* -------------------------------------------------------- disconnect()
disconnect(w) ==
    IF w.connection # 0
    THEN [Call(w, "connection.close") EXCEPT
            !.conns[w.connection] = ClosedConnection,
            !.is_connected = FALSE]
    ELSE w

\* --------------------------------------------------------- json, bytes
\* json.dumps(envelope).encode(): the bytes of a JSON object
Dumps(envelope) == [kind |-> "object", obj |-> envelope]

\* message.body.decode() then json.loads(body): the exception raised, or None
DecodeError(body) ==
    CASE body.kind = "bad_utf8" -> "UnicodeDecodeError"
      [] body.kind = "bad_json" -> "JSONDecodeError"
      [] OTHER -> None

\* --------------------------------------------------- create_envelope()
\* Optional gone wrong: the key is always written.
OptionalPlaceholder(key, value) == [k \in {key} |-> value]

\* The envelope dict built from the arguments; message_id and timestamp stand
\* for str(uuid.uuid4()) and datetime.utcnow().isoformat() + "Z".
Optional(key, value) == IF Truthy(value) THEN [k \in {key} |-> value] ELSE <<>>

create_envelope(message_type, data, correlation_id, causation_id, sender, message_id, timestamp) ==
    [metadata |->
        [messageId |-> message_id, timestamp |-> timestamp,
         messageType |-> message_type, data |-> data, version |-> "1.0"]
        @@ Optional("correlationId", correlation_id)
        @@ Optional("causationId", causation_id)
        @@ Optional("sender", sender)]

\* Argument values: Int42 stands for the int 42, the data tokens for dicts.
Int42 == "int:42"
Dicts == {"d1", "d2"}
OptionalValues == {None, "", "corr-123", Int42}
EnvelopeData == {"d1", None}

\* Envelopes the model builds: a bare one and one with every optional field.
CreatedEnvelopes ==
    {create_envelope("test_type", "d1", None, None, None, "uuid-1", "t1"),
     create_envelope("SuccessEmail", "d2", "corr-123", "cause-456",
                     "test-service", "uuid-2", "t2")}

\* What a caller may hand to publish_message: any dict, an envelope or not.
Envelopes == {create_envelope("test_type", "d1", None, None, None, "uuid-1", "t1"),
              [foo |-> "bar"]}

\* What a producer may put on the queue.
Bodies ==
    {[kind |-> "bad_utf8"], [kind |-> "bad_json"], [kind |-> "number"]}
    \cup {Dumps(e) : e \in CreatedEnvelopes \cup Envelopes}
    \cup {Dumps(o) : o \in
           {[metadata |-> [data |-> "d1"]],
            [metadata |-> [messageType |-> "", data |-> "d1"]],
            [metadata |-> [messageType |-> "test_type", data |-> "d1"]],
            [metadata |-> [messageType |-> "test_type"]],
            [metadata |-> [messageType |-> "test_type"], payload |-> "d2"],
            [metadata |-> [messageType |-> "test_type", data |-> "d1"],
             payload |-> "d1"],
            [metadata |-> [messageType |-> "test_type", data |-> "d1"],
             payload |-> None]}}

\* ----------------------------------------------------- publish_message()
\* await self.exchange.publish(message, routing_key)
ExchangePublish(w, rk, body) ==
    IF w.exchange = 0 THEN Raise(w, "AttributeError")
    ELSE IF ~Live(w.conns, w.exchange)
    THEN Raise(Call(w, "exchange.publish"), "ChannelError")
    ELSE [Call(w, "exchange.publish") EXCEPT
            !.wire = Append(@, [exchange |-> w.exchange, routing_key |-> rk,
                                body |-> body,
                                content_type |-> "application/json",
                                delivery_mode |-> "PERSISTENT"])]

\* EnsureConnected gone wrong: connects whether or not the client is connected.
EnsureConnectedAlways(w, failAt) == connect(w, failAt)

\* EnsureConnected gone wrong: a connect that failed is tried a second time.
EnsureConnectedRetry(w, failAt) ==
    IF w.is_connected THEN w
    ELSE LET w1 == connect(w, failAt)
         IN  IF w1.error = None THEN w1
             ELSE connect([w1 EXCEPT !.error = None], failAt)

\* if not self._is_connected: await self.connect()
EnsureConnected(w, failAt) == IF ~w.is_connected THEN connect(w, failAt) ELSE w

publish_message(w, rk, envelope, failAt) ==
    LET w1 == EnsureConnected(w, failAt)
    IN  IF w1.error # None THEN w1 ELSE ExchangePublish(w1, rk, Dumps(envelope))

\* ----------------------------------------------------- start_consuming()
\* await self.queue.consume(self._process_message)
QueueConsume(w) ==
    IF ~Live(w.conns, w.queue)
    THEN Raise(Call(w, "queue.consume"), "ChannelError")
    ELSE [Call(w, "queue.consume") EXCEPT
            !.conns[w.queue].consumers = @ + 1,
            !.conns[w.queue].unacked = Append(@, 0)]

start_consuming(w, failAt) ==
    LET w1 == EnsureConnected(w, failAt)
    IN  IF w1.error # None THEN w1
        ELSE IF w1.queue = 0 THEN Raise(w1, "ValueError")
        ELSE QueueConsume(w1)

\* ---------------------------------------------------- _process_message()
\* The try block up to the handler call: what it logs and returns, or the
\* handler and the payload it is about to call.
Stop(outcome, exc) == [outcome |-> outcome, exc |-> exc, handler |-> None,
                       payload |-> None]

\* payload = envelope.get("payload")
ExtractPayload(envelope) == Get(envelope, "payload")

Pipeline(body, handlers) ==
    IF DecodeError(body) # None THEN Stop("decode_error", DecodeError(body))
    ELSE IF body.kind # "object" THEN Stop("error", "TypeError")
    ELSE LET envelope == body.obj IN
    IF "metadata" \notin DOMAIN envelope THEN Stop("no_metadata", None)
    ELSE LET message_type == Get(envelope.metadata, "messageType") IN
    IF ~Truthy(message_type) THEN Stop("no_message_type", None)
    ELSE LET handler == Get(handlers, message_type) IN
    IF handler = None THEN Stop("no_handler", None)
    ELSE LET payload == ExtractPayload(envelope) IN
    IF payload = None THEN Stop("no_payload", None)
    ELSE [outcome |-> "dispatch", exc |-> None, handler |-> handler,
          payload |-> payload]

\* ExceptCatches gone wrong: the except Exception clause is missing.
ExceptCatchesJsonOnly(exc) == exc = "JSONDecodeError"

\* except json.JSONDecodeError / except Exception: is the exception caught?
ExceptCatches(exc) ==
    exc \in {"JSONDecodeError", "UnicodeDecodeError", "TypeError", "HandlerError"}

\* ProcessExit gone wrong: the ack is issued by hand, on the success path only.
ProcessExitAckOnSuccessOnly(exc) == IF exc # None THEN "dropped" ELSE "ack"

\* async with message.process(): ack on a normal exit, reject (requeue=False,
\* the default) when an exception leaves the block.
ProcessExit(exc) == IF exc # None /\ ~ExceptCatches(exc) THEN "reject" ELSE "ack"

NoDelivery == [state |-> "none", body |-> [kind |-> "none"], steps |-> <<>>,
               outcome |-> None, handler |-> None, payload |-> None,
               channel |-> 0]

\* ------------------------------------------------------ ContractValidator
\* str.lower() on the message types of the model
Lower(s) == IF s = "SuccessEmail" THEN "successemail" ELSE s

\* f"{stem}.json"
JsonFile(stem) ==
    CASE stem = "successemail" -> "successemail.json"
      [] stem = "email_messages" -> "email_messages.json"
      [] stem = "envelope" -> "envelope.json"

\* os.path.join(self.contracts_dir, *parts): an empty component adds nothing
NonEmpty(c) == c # ""
Join(parts) == SelectSeq(parts, NonEmpty)

\* What a file can be: absent; present but open() or read() fails; not JSON;
\* a JSON array; a JSON object (as json.dumps writes it).
Missing == [kind |-> "missing"]
Unreadable == [kind |-> "unreadable"]
BadJson == [kind |-> "bad_json"]
JsonArray == [kind |-> "array"]

\* with open(schema_path, "r") as f: schema = json.load(f): the exception
\* raised, or None
ReadError(file) ==
    CASE file.kind = "missing" -> "FileNotFoundError"
      [] file.kind = "unreadable" -> "PermissionError"
      [] OTHER -> DecodeError(file)

\* json.load(f): a dict is the record of its keys, an array stands for itself
Parsed(file) == IF file.kind = "object" THEN file.obj ELSE file
IsDict(value) == value # JsonArray

NoDoc == [kind |-> "none"]

\* The validator as a call finds it, with what the call has done so far.
Store == [schema_cache |-> schema_cache, reads |-> <<>>, schema |-> NoDoc,
          via |-> "none", error |-> None, detail |-> {}]

\* LoadPath gone wrong: the cache is not consulted.
LoadPathNoCache(v, schema_path) ==
    LET file == IF schema_path \in DOMAIN disk THEN disk[schema_path] ELSE Missing
        v1 == [v EXCEPT !.reads = Append(@, schema_path)]
    IN  IF ReadError(file) # None
        THEN [v1 EXCEPT !.error = ReadError(file)]
        ELSE [v1 EXCEPT !.schema_cache = (schema_path :> Parsed(file)) @@ @,
                        !.schema = Parsed(file)]

\* LoadPath gone wrong: a failed load is remembered as an empty schema.
LoadPathCachesFailure(v, schema_path) ==
    IF schema_path \in DOMAIN v.schema_cache
    THEN [v EXCEPT !.schema = v.schema_cache[schema_path]]
    ELSE LET file == IF schema_path \in DOMAIN disk THEN disk[schema_path] ELSE Missing
             v1 == [v EXCEPT !.reads = Append(@, schema_path)]
         IN  IF ReadError(file) # None
             THEN [v1 EXCEPT !.error = ReadError(file),
                             !.schema_cache = (schema_path :> NoDoc) @@ @]
             ELSE [v1 EXCEPT !.schema_cache = (schema_path :> Parsed(file)) @@ @,
                             !.schema = Parsed(file)]

\* LoadPath gone wrong: a cached schema is dropped when its file has changed.
LoadPathHotReload(v, schema_path) ==
    LET file == IF schema_path \in DOMAIN disk THEN disk[schema_path] ELSE Missing
        v1 == [v EXCEPT !.reads = Append(@, schema_path)]
    IN  IF schema_path \in DOMAIN v.schema_cache /\ ReadError(file) # None
        THEN [v EXCEPT !.schema = v.schema_cache[schema_path]]
        ELSE IF schema_path \in DOMAIN v.schema_cache
                /\ Parsed(file) = v.schema_cache[schema_path]
        THEN [v EXCEPT !.schema = v.schema_cache[schema_path]]
        ELSE IF ReadError(file) # None
        THEN [v1 EXCEPT !.error = ReadError(file)]
        ELSE [v1 EXCEPT !.schema_cache = (schema_path :> Parsed(file)) @@ @,
                        !.schema = Parsed(file)]

\* if schema_path in self.schema_cache: return it; else open, json.load,
\* self.schema_cache[schema_path] = schema
LoadPath(v, schema_path) ==
    IF schema_path \in DOMAIN v.schema_cache
    THEN [v EXCEPT !.schema = v.schema_cache[schema_path]]
    ELSE LET file == IF schema_path \in DOMAIN disk THEN disk[schema_path] ELSE Missing
             v1 == [v EXCEPT !.reads = Append(@, schema_path)]
         IN  IF ReadError(file) # None
             THEN [v1 EXCEPT !.error = ReadError(file)]
             ELSE [v1 EXCEPT !.schema_cache = (schema_path :> Parsed(file)) @@ @,
                             !.schema = Parsed(file)]

load_schema(v, schema_file) == LoadPath(v, Join(<<schema_file>>))

load_message_schema(v, domain, schema_file) ==
    LoadPath(v, Join(<<domain, schema_file>>))

\* except (FileNotFoundError, json.JSONDecodeError): pass
LookupCatches(exc) == exc \in {"FileNotFoundError", "JSONDecodeError"}

\* raise ValueError(f"Message type '{message_type}' not found in domain ...")
NotFound(v) == [v EXCEPT !.schema = NoDoc, !.via = "none", !.error = "ValueError"]

\* The second try block: the bundle and its definitions.
LegacyLookup(v, domain, message_type) ==
    LET v2 == load_message_schema(v, domain, "email_messages.json")
    IN  IF v2.error # None
        THEN IF LookupCatches(v2.error) THEN NotFound(v2) ELSE v2
        ELSE IF ~IsDict(v2.schema)
        THEN [v2 EXCEPT !.schema = NoDoc, !.error = "AttributeError"]
        ELSE IF "definitions" \in DOMAIN v2.schema
                /\ message_type \in DOMAIN v2.schema.definitions
        THEN [v2 EXCEPT !.schema = v2.schema.definitions[message_type],
                        !.via = "legacy"]
        ELSE NotFound(v2)

\* get_message_schema gone wrong: the bundle is looked up first.
get_message_schema_legacy_first(v, domain, message_type) ==
    LET v2 == LegacyLookup(v, domain, message_type)
        v1 == load_message_schema([v2 EXCEPT !.error = None], domain,
                                  JsonFile(Lower(message_type)))
    IN  IF v2.error = None THEN v2
        ELSE IF v1.error = None THEN [v1 EXCEPT !.via = "per_type"]
        ELSE NotFound(v1)

get_message_schema(v, domain, message_type) ==
    LET v1 == load_message_schema(v, domain, JsonFile(Lower(message_type)))
    IN  IF v1.error = None THEN [v1 EXCEPT !.via = "per_type"]
        ELSE IF ~LookupCatches(v1.error) THEN v1
        ELSE LegacyLookup([v1 EXCEPT !.error = None], domain, message_type)

\* jsonschema.validate(instance, schema), for the keywords the contracts use:
\* required, properties and type ("format" is not checked by validate()).
Required(schema) == IF "required" \in DOMAIN schema THEN schema.required ELSE {}
Properties(schema) == IF "properties" \in DOMAIN schema THEN schema.properties ELSE <<>>

\* The JSON type of a value that is not a dict of the model
JsonType(value) ==
    CASE value = None -> "null"
      [] value = Int42 -> "integer"
      [] value \in Dicts -> "object"
      [] OTHER -> "string"

\* A property schema that describes the keys of an object
HasKeys(schema) == "required" \in DOMAIN schema \/ "properties" \in DOMAIN schema

\* The keys the errors of the validation name: required keys that are not
\* there, keys whose value has another type than the schema gives them.
RECURSIVE Violations(_, _)
Violations(instance, schema) ==
    (Required(schema) \ DOMAIN instance)
    \cup UNION {LET sub == Properties(schema)[k]
                IN  IF HasKeys(sub) THEN Violations(instance[k], sub)
                    ELSE IF "type" \in DOMAIN sub /\ JsonType(instance[k]) # sub.type
                    THEN {k}
                    ELSE {}
                : k \in DOMAIN Properties(schema) \cap DOMAIN instance}

Conforms(instance, schema) == Violations(instance, schema) = {}

JsonschemaValidate(v, instance) ==
    IF ~IsDict(v.schema) THEN [v EXCEPT !.error = "SchemaError"]
    ELSE IF ~Conforms(instance, v.schema)
    THEN [v EXCEPT !.error = "ValidationError",
                   !.detail = Violations(instance, v.schema)]
    ELSE v

\* validate_message gone wrong: the schema is resolved but not applied.
validate_message_unchecked(v, domain, message_type, message_data) ==
    get_message_schema(v, domain, message_type)

validate_message(v, domain, message_type, message_data) ==
    LET v1 == get_message_schema(v, domain, message_type)
    IN  IF v1.error # None THEN v1 ELSE JsonschemaValidate(v1, message_data)

\* create_envelope gone wrong: the envelope schema is loaded but not applied.
validate_envelope_unchecked(v, envelope) == load_schema(v, "envelope.json")

\* create_envelope, after the envelope is built: load envelope.json, validate
validate_envelope(v, envelope) ==
    LET v1 == load_schema(v, "envelope.json")
    IN  IF v1.error # None THEN v1 ELSE JsonschemaValidate(v1, envelope)

\* ------------------------------------------------- the contracts directory
PerTypePath == Join(<<"mailing", "successemail.json">>)
BundlePath == Join(<<"mailing", "email_messages.json">>)
EnvelopePath == Join(<<"envelope.json">>)
Paths == {PerTypePath, BundlePath, EnvelopePath}

\* Two versions of the per-type schema, the bundle and the envelope schema of
\* the tests (required keys only), and a bundle with no definitions.
SchemaV1 == [type |-> "object", required |-> {"recipientName"}]
SchemaV2 == [type |-> "object", required |-> {"recipientName", "transactionId"}]
LegacySchema == [type |-> "object", required |-> {"recipientName", "transactionId", "amount", "currency", "merchantName"}]
Bundle == [title |-> "Email Message Contracts", definitions |-> [SuccessEmail |-> LegacySchema]]
EmptyBundle == [title |-> "Email Message Contracts"]
MetadataProperties == [messageId |-> [type |-> "string"], timestamp |-> [type |-> "string"], correlationId |-> [type |-> "string"], causationId |-> [type |-> "string"], sender |-> [type |-> "string"], version |-> [type |-> "string"], messageType |-> [type |-> "string"], data |-> [type |-> "object"]]
EnvelopeSchema == [type |-> "object", required |-> {"metadata"}, properties |-> [metadata |-> [type |-> "object", required |-> {"messageId", "timestamp", "messageType", "data"}, properties |-> MetadataProperties]]]

ContentsOf(path) ==
    CASE path = PerTypePath ->
            {Missing, Unreadable, BadJson, Dumps(SchemaV1), Dumps(SchemaV2)}
      [] path = BundlePath ->
            {Missing, BadJson, JsonArray, Dumps(Bundle), Dumps(EmptyBundle)}
      [] path = EnvelopePath -> {Missing, Dumps(EnvelopeSchema)}

\* The contracts directory of the tests: the bundle and the envelope schema.
TestContracts ==
    [p \in Paths |-> CASE p = PerTypePath -> Missing
                       [] p = BundlePath -> Dumps(Bundle)
                       [] p = EnvelopePath -> Dumps(EnvelopeSchema)]

Payloads == {[recipientName |-> "Ann"], [foo |-> "bar"]}

\* ================================================================ actions
\* ContractValidator.__init__: self.schema_cache = {}
ValidatorInit ==
    /\ schema_cache = <<>>
    /\ disk = TestContracts
    /\ vlast = [op |-> "__init__", args |-> <<>>, reads |-> <<>>,
                result |-> NoDoc, via |-> "none", error |-> None,
                detail |-> {}, tick |-> 0]
    /\ resolved = [t \in ContractTypes |-> [via |-> "none", doc |-> NoDoc]]

\* No call is running as a task.
Tasks == 1..MaxTasks
IdleTask == [op |-> None, pc |-> "idle", on |-> 0, error |-> None]
TasksInit == tasks = [t \in Tasks |-> IdleTask]

\* Write back what an API call left: the client's fields, the broker and
\* the record of the call.
Commit(op, args, w) ==
    /\ connection' = w.connection
    /\ channel' = w.channel
    /\ exchange' = w.exchange
    /\ queue' = w.queue
    /\ is_connected' = w.is_connected
    /\ conns' = w.conns
    /\ wire' = w.wire
    /\ last' = [op |-> op, args |-> args, held_open |-> Live(conns, connection),
                calls |-> w.calls, error |-> w.error]

\* connect() makes a connection unless connect_robust itself fails.
MayConnect(failAt) == failAt \in StepsOf /\ (failAt = 1 \/ Len(conns) < MaxConnects)

Init ==
    /\ queue_name \in {None, "test_queue"}
    /\ routing_key \in {None, "test.key"}
    /\ connection = 0
    /\ channel = 0
    /\ exchange = 0
    /\ queue = 0
    /\ is_connected = FALSE
    /\ message_handlers = [t \in MsgTypes |-> None]
    /\ conns = <<>>
    /\ wire = <<>>
    /\ deliveries = [i \in 1..MaxDeliveries |-> NoDelivery]
    /\ last = [op |-> "__init__", args |-> <<>>, held_open |-> FALSE,
               calls |-> <<>>, error |-> None]
    /\ ValidatorInit
    /\ TasksInit

Connect ==
    \E failAt \in StepsOf :
        /\ MayConnect(failAt)
        /\ Commit("connect", <<>>, connect(World, failAt))
        /\ UNCHANGED <<config, message_handlers, deliveries, validator, tasks>>

Disconnect ==
    /\ Commit("disconnect", <<>>, disconnect(World))
    /\ UNCHANGED <<config, message_handlers, deliveries, validator, tasks>>

\* register_handler gone wrong: a type that has a handler keeps it.
register_handler_once(handlers, message_type, handler) ==
    IF handlers[message_type] = None
    THEN [handlers EXCEPT ![message_type] = handler]
    ELSE handlers

\* self.message_handlers[message_type] = handler
register_handler(handlers, message_type, handler) ==
    [handlers EXCEPT ![message_type] = handler]

RegisterHandler ==
    \E t \in MsgTypes, h \in Handlers :
        /\ message_handlers' = register_handler(message_handlers, t, h)
        /\ last' = [op |-> "register_handler", args |-> <<t, h>>,
                    held_open |-> Live(conns, connection), calls |-> <<>>,
                    error |-> None]
        /\ UNCHANGED <<config, client, conns, wire, deliveries, validator, tasks>>

StartConsumingUpTo(max) ==
    \E failAt \in StepsOf :
        /\ is_connected => failAt = 0
        /\ ~is_connected => MayConnect(failAt)
        /\ Live(conns, queue) /\ is_connected => conns[queue].consumers < max
        /\ Commit("start_consuming", <<>>, start_consuming(World, failAt))
        /\ UNCHANGED <<config, message_handlers, deliveries, validator, tasks>>

StartConsuming == StartConsumingUpTo(MaxConsumers)

PublishMessage ==
    \E rk \in RoutingKeys, envelope \in Envelopes, failAt \in StepsOf :
        /\ is_connected => failAt = 0
        /\ ~is_connected => MayConnect(failAt)
        /\ Len(wire) < MaxPublished
        /\ Commit("publish_message", <<rk, envelope>>,
                  publish_message(World, rk, envelope, failAt))
        /\ UNCHANGED <<config, message_handlers, deliveries, validator, tasks>>

\* The broker hands the next message of the queue to a consumer callback of
\* an open connection; _process_message runs up to the handler call, or to
\* its end when it stops before one.
NextDelivery == CHOOSE i \in 1..MaxDeliveries :
                    /\ deliveries[i].state = "none"
                    /\ \A j \in 1..(i - 1) : deliveries[j].state # "none"

DeliverOf(bodies) ==
    \E body \in bodies, n \in DOMAIN conns :
        /\ conns[n].open /\ conns[n].consumers > 0
        /\ \E i \in 1..MaxDeliveries : deliveries[i].state = "none"
        /\ LET r == Pipeline(body, message_handlers)
               d == [NoDelivery EXCEPT !.body = body, !.channel = n,
                                       !.outcome = r.outcome,
                                       !.handler = r.handler,
                                       !.payload = r.payload]
           IN  deliveries' = [deliveries EXCEPT ![NextDelivery] =
                 IF r.outcome = "dispatch"
                 THEN [d EXCEPT !.state = "handling", !.steps = <<"handler">>]
                 ELSE [d EXCEPT !.state = "done", !.steps = <<ProcessExit(r.exc)>>]]
        /\ UNCHANGED <<config, client, message_handlers, conns, wire, last, validator, tasks>>

Deliver == DeliverOf(Bodies)

\* await handler(payload) comes back: it returned, or raised an Exception.
HandlerReturn ==
    \E i \in 1..MaxDeliveries, raised \in BOOLEAN :
        /\ deliveries[i].state = "handling"
        /\ LET exc == IF raised THEN "HandlerError" ELSE None
           IN  deliveries' = [deliveries EXCEPT ![i] =
                 [@ EXCEPT !.state = "done",
                           !.outcome = IF raised THEN "handler_error" ELSE "processed",
                           !.steps = Append(@, ProcessExit(exc))]]
        /\ UNCHANGED <<config, client, message_handlers, conns, wire, last, validator, tasks>>

\* The client's API as a caller drives it.
Next ==
    \/ Connect
    \/ Disconnect
    \/ StartConsuming
    \/ PublishMessage

Spec == Init /\ [][Next]_vars

\* The router: a client constructed with a queue and a routing key, after its
\* first start_consuming() connected and registered the consumer; it registers
\* handlers and takes deliveries.
RouterInit ==
    /\ queue_name = "test_queue"
    /\ routing_key = "test.key"
    /\ message_handlers = [t \in MsgTypes |-> None]
    /\ deliveries = [i \in 1..MaxDeliveries |-> NoDelivery]
    /\ ValidatorInit
    /\ TasksInit
    /\ LET w == start_consuming(
                  [connection |-> 0, channel |-> 0, exchange |-> 0, queue |-> 0,
                   is_connected |-> FALSE, conns |-> <<>>, wire |-> <<>>,
                   calls |-> <<>>, error |-> None], 0)
       IN  /\ connection = w.connection
           /\ channel = w.channel
           /\ exchange = w.exchange
           /\ queue = w.queue
           /\ is_connected = w.is_connected
           /\ conns = w.conns
           /\ wire = w.wire
           /\ last = [op |-> "start_consuming", args |-> <<>>,
                     held_open |-> FALSE, calls |-> w.calls, error |-> w.error]

RouterNext ==
    \/ RegisterHandler
    \/ Deliver
    \/ HandlerReturn

SpecRouter == RouterInit /\ [][RouterNext]_vars

\* The consumer through its life: a client constructed with or without a queue
\* name, after register_handler("test_type", h1); it connects, consumes, takes
\* deliveries and disconnects in any order.
ConsumerBodies ==
    {[kind |-> "bad_json"],
     Dumps([metadata |-> [messageType |-> "test_type"], payload |-> "d1"])}

ConsumerInit ==
    /\ queue_name \in {None, "test_queue"}
    /\ routing_key = "test.key"
    /\ connection = 0
    /\ channel = 0
    /\ exchange = 0
    /\ queue = 0
    /\ is_connected = FALSE
    /\ message_handlers = [t \in MsgTypes |-> IF t = "test_type" THEN "h1" ELSE None]
    /\ conns = <<>>
    /\ wire = <<>>
    /\ deliveries = [i \in 1..MaxDeliveries |-> NoDelivery]
    /\ last = [op |-> "register_handler", args |-> <<"test_type", "h1">>,
               held_open |-> FALSE, calls |-> <<>>, error |-> None]
    /\ ValidatorInit
    /\ TasksInit

ConsumerDeliver == DeliverOf(ConsumerBodies)

ConsumerNext ==
    \/ Connect
    \/ Disconnect
    \/ StartConsuming
    \/ ConsumerDeliver
    \/ HandlerReturn

SpecConsumer == ConsumerInit /\ [][ConsumerNext]_vars

\* ------------------------------------------------------ validator actions
\* Write back what a call of the validator left.
CommitCall(op, args, v, result) ==
    /\ schema_cache' = v.schema_cache
    /\ vlast' = [op |-> op, args |-> args, reads |-> v.reads,
                 result |-> IF v.error = None THEN result ELSE NoDoc,
                 via |-> v.via, error |-> v.error, detail |-> v.detail,
                 tick |-> 1 - vlast.tick]
    /\ UNCHANGED <<config, client, message_handlers, conns, wire, deliveries,
                   last, disk, tasks>>

CommitStore(op, args, v, result) ==
    /\ CommitCall(op, args, v, result)
    /\ resolved' = IF v.via = "none" THEN resolved
                   ELSE [resolved EXCEPT ![args[2]] = [via |-> v.via, doc |-> v.schema]]

GetMessageSchema ==
    \E message_type \in ContractTypes :
        LET v == get_message_schema(Store, "mailing", message_type)
        IN  CommitStore("get_message_schema", <<"mailing", message_type>>, v, v.schema)

ValidateMessage ==
    \E message_type \in ContractTypes, message_data \in Payloads :
        CommitStore("validate_message", <<"mailing", message_type, message_data>>,
                    validate_message(Store, "mailing", message_type, message_data),
                    NoDoc)

CreateEnvelope ==
    \E envelope \in CreatedEnvelopes :
        CommitStore("create_envelope", <<envelope.metadata.messageType>>,
                    validate_envelope(Store, envelope), envelope)

\* Somebody writes, replaces or removes a file of the contracts directory.
FileChange ==
    \E path \in Paths : \E file \in ContentsOf(path) :
        /\ file # disk[path]
        /\ disk' = [disk EXCEPT ![path] = file]
        /\ UNCHANGED <<config, client, message_handlers, conns, wire, deliveries,
                       last, schema_cache, vlast, resolved, tasks>>

\* The validator of a process: created once, then called in any order while
\* the contracts directory may change under it.
ValidatorNext ==
    \/ GetMessageSchema
    \/ ValidateMessage
    \/ CreateEnvelope
    \/ FileChange

ContractsInit ==
    /\ queue_name = None
    /\ routing_key = None
    /\ Init

SpecValidator == ContractsInit /\ [][ValidatorNext]_vars

\* ------------------------------------------------------ concurrent calls
\* API calls as coroutines on one event loop. A call runs without interruption
\* from one await to the next; while it is suspended the others run. The
\* object an awaited method is called on is read from self when the call is
\* issued, its result is assigned to self when the call completes.
TaskOps == {"connect", "disconnect", "publish_message", "start_consuming"}
ConnectAwaits == {"connect_robust", "connection.channel", "channel.set_qos",
                  "channel.declare_exchange", "channel.declare_queue", "queue.bind"}

\* The first await a call reaches ("return", "raise": it ends before any).
FirstAwait(op) ==
    CASE op = "connect" -> "connect_robust"
      [] op = "disconnect" -> IF connection # 0 THEN "connection.close" ELSE "return"
      [] op = "publish_message" ->
            IF ~is_connected THEN "connect_robust" ELSE "exchange.publish"
      [] op = "start_consuming" ->
            IF ~is_connected THEN "connect_robust"
            ELSE IF queue = 0 THEN "raise" ELSE "queue.consume"

\* The await of connect() that follows call ("end": self._is_connected = True).
NextAwait(call) ==
    CASE call = "connect_robust" -> "connection.channel"
      [] call = "connection.channel" -> "channel.set_qos"
      [] call = "channel.set_qos" -> "channel.declare_exchange"
      [] call = "channel.declare_exchange" ->
            IF Truthy(queue_name) THEN "channel.declare_queue" ELSE "end"
      [] call = "channel.declare_queue" ->
            IF Truthy(routing_key) THEN "queue.bind" ELSE "end"
      [] call = "queue.bind" -> "end"

\* What follows a complete connect() in the call op.
AfterConnect(op, self) ==
    CASE op = "connect" -> "return"
      [] op = "publish_message" -> "exchange.publish"
      [] op = "start_consuming" -> IF self.queue = 0 THEN "raise" ELSE "queue.consume"

\* The object of self the awaited method is called on (0: none).
Receiver(call, self) ==
    CASE call \in {"connection.channel", "connection.close"} -> self.connection
      [] call \in {"channel.set_qos", "channel.declare_exchange",
                   "channel.declare_queue"} -> self.channel
      [] call \in {"queue.bind", "queue.consume"} -> self.queue
      [] call = "exchange.publish" -> self.exchange
      [] OTHER -> 0

\* The call as it was issued: on the object read then, not on what self
\* names now.
Issued(w, call, on) ==
    CASE call \in {"connection.channel", "connection.close"} -> [w EXCEPT !.connection = on]
      [] call \in {"channel.set_qos", "channel.declare_exchange",
                   "channel.declare_queue"} -> [w EXCEPT !.channel = on]
      [] call \in {"queue.bind", "queue.consume"} -> [w EXCEPT !.queue = on]
      [] call = "exchange.publish" -> [w EXCEPT !.exchange = on]
      [] OTHER -> w

\* The awaited call completes.
Complete(call, w) ==
    CASE call = "connect_robust" -> OpenConnection(w, 0)
      [] call = "connection.channel" -> OpenChannel(w, 0)
      [] call = "channel.set_qos" -> SetQos(w, 0)
      [] call = "channel.declare_exchange" -> DeclareExchange(w, 0)
      [] call = "channel.declare_queue" -> DeclareQueue(w, 0)
      [] call = "queue.bind" -> BindQueue(w, 0)
      [] call = "exchange.publish" ->
            ExchangePublish(w, "test.route", Dumps([foo |-> "bar"]))
      [] call = "queue.consume" -> QueueConsume(w)
      [] call = "connection.close" -> w

\* self after the call completed: the statement assigns its result to one
\* field; the flag is set at the end of connect(), cleared by its except
\* clause and after close().
SelfAfter(call, w1) ==
    [connection |-> IF call = "connect_robust" /\ w1.error = None
                    THEN w1.connection ELSE connection,
     channel |-> IF call = "connection.channel" /\ w1.error = None
                 THEN w1.channel ELSE channel,
     exchange |-> IF call = "channel.declare_exchange" /\ w1.error = None
                  THEN w1.exchange ELSE exchange,
     queue |-> IF call = "channel.declare_queue" /\ w1.error = None
               THEN w1.queue ELSE queue,
     is_connected |->
        IF call \in ConnectAwaits /\ w1.error # None THEN FALSE
        ELSE IF call \in ConnectAwaits /\ NextAwait(call) = "end" THEN TRUE
        ELSE IF call = "connection.close" THEN FALSE
        ELSE is_connected]

\* Where the task stands after the call completed.
Resume(task, call, w1, self) ==
    LET next == IF w1.error # None THEN "raise"
                ELSE IF call \notin ConnectAwaits THEN "return"
                ELSE IF NextAwait(call) # "end" THEN NextAwait(call)
                ELSE AfterConnect(task.op, self)
    IN  IF next \in {"return", "raise"}
        THEN [task EXCEPT !.pc = "done", !.on = 0,
                          !.error = IF w1.error # None THEN w1.error
                                    ELSE IF next = "raise" THEN "ValueError"
                                    ELSE None]
        ELSE [task EXCEPT !.pc = next, !.on = Receiver(next, self)]

\* A caller starts an API call as a task: it runs to its first await. A
\* connection whose close() was issued is closing: it takes no more calls.
Start(t, op) ==
    /\ tasks[t].pc = "idle"
    /\ LET first == FirstAwait(op)
       IN  /\ tasks' = [tasks EXCEPT ![t] =
                IF first \in {"return", "raise"}
                THEN [op |-> op, pc |-> "done", on |-> 0,
                      error |-> IF first = "raise" THEN "ValueError" ELSE None]
                ELSE [op |-> op, pc |-> first, on |-> Receiver(first, World),
                      error |-> None]]
           /\ conns' = IF first = "connection.close"
                       THEN [conns EXCEPT ![connection] = ClosedConnection]
                       ELSE conns
    /\ UNCHANGED <<config, client, message_handlers, wire, deliveries, last,
                   validator>>

\* The call a task awaits completes and the task runs to its next await.
Step(t) ==
    /\ tasks[t].pc \notin {"idle", "done"}
    /\ LET call == tasks[t].pc
           w1 == Complete(call, Issued(World, call, tasks[t].on))
           self == SelfAfter(call, w1)
       IN  /\ connection' = self.connection
           /\ channel' = self.channel
           /\ exchange' = self.exchange
           /\ queue' = self.queue
           /\ is_connected' = self.is_connected
           /\ conns' = w1.conns
           /\ wire' = w1.wire
           /\ tasks' = [tasks EXCEPT ![t] = Resume(tasks[t], call, w1, self)]
    /\ UNCHANGED <<config, message_handlers, deliveries, last, validator>>

TasksNext ==
    \/ \E t \in Tasks, op \in TaskOps : Start(t, op)
    \/ \E t \in Tasks : Step(t)

SpecTasks == Init /\ [][TasksNext]_vars

\* --------------------------------------------------- the prefetch window
\* The consumer under load: start_consuming() may be called again on a
\* consuming client; the broker hands deliveries to the consumers of the open
\* channels within the window of each, and _process_message settles them.
\* Deliveries are counted here, not told apart.
Subscribe == StartConsumingUpTo(MaxSubscriptions)

\* The broker hands a delivery to consumer k of channel n: the callback
\* (_process_message) is running with it.
BrokerDeliver ==
    \E n \in DOMAIN conns : \E k \in DOMAIN conns[n].unacked :
        /\ conns[n].open
        /\ WindowOpen(conns[n], k)
        /\ SumOf(conns[n].unacked) < MaxUnacked
        /\ conns' = [conns EXCEPT ![n].unacked[k] = @ + 1]
        /\ UNCHANGED <<config, client, message_handlers, wire, deliveries, last,
                       validator, tasks>>

\* async with message.process() is left: the delivery is acknowledged or
\* rejected.
Settle ==
    \E n \in DOMAIN conns : \E k \in DOMAIN conns[n].unacked :
        /\ conns[n].unacked[k] > 0
        /\ conns' = [conns EXCEPT ![n].unacked[k] = @ - 1]
        /\ UNCHANGED <<config, client, message_handlers, wire, deliveries, last,
                       validator, tasks>>

PrefetchNext ==
    \/ Connect
    \/ Disconnect
    \/ Subscribe
    \/ BrokerDeliver
    \/ Settle

SpecPrefetch == ConsumerInit /\ [][PrefetchNext]_vars

\* ------------------------------------------- envelopes and schema keys
\* The callers of one validator: some build envelopes from any arguments,
\* some resolve schemas of any domain, the empty one included, while
\* envelope.json may come and go.
Domains == {"mailing", ""}
LookupTypes == {"SuccessEmail", "envelope"}

CreateAnyEnvelope ==
    \E message_type \in MsgTypes, data \in EnvelopeData :
      \E correlation_id \in OptionalValues, causation_id \in OptionalValues, sender \in OptionalValues :
        LET envelope == create_envelope(message_type, data, correlation_id,
                                        causation_id, sender, "uuid-1", "t1")
        IN  /\ CommitCall("create_envelope",
                          <<message_type, data, correlation_id, causation_id, sender>>,
                          validate_envelope(Store, envelope), envelope)
            /\ UNCHANGED resolved

GetAnyMessageSchema ==
    \E domain \in Domains, message_type \in LookupTypes :
        LET v == get_message_schema(Store, domain, message_type)
        IN  /\ CommitCall("get_message_schema", <<domain, message_type>>, v, v.schema)
            /\ UNCHANGED resolved

EnvelopeFileChange ==
    \E file \in ContentsOf(EnvelopePath) :
        /\ file # disk[EnvelopePath]
        /\ disk' = [disk EXCEPT ![EnvelopePath] = file]
        /\ UNCHANGED <<config, client, message_handlers, conns, wire, deliveries,
                       last, schema_cache, vlast, resolved, tasks>>

EnvelopeNext ==
    \/ CreateAnyEnvelope
    \/ GetAnyMessageSchema
    \/ EnvelopeFileChange

SpecEnvelope == ContractsInit /\ [][EnvelopeNext]_vars

\* ================================================================= claims
Range(seq) == {seq[i] : i \in DOMAIN seq}

\* call a is issued before call b in the sequence of calls
Before(calls, a, b) ==
    \E i, j \in DOMAIN calls : i < j /\ calls[i] = a /\ calls[j] = b

\* The library calls of a complete connect() with this configuration.
ConnectCalls ==
    <<"connect_robust", "connection.channel", "channel.set_qos",
      "channel.declare_exchange">>
    \o (IF Truthy(queue_name) THEN <<"channel.declare_queue">> ELSE <<>>)
    \o (IF Truthy(queue_name) /\ Truthy(routing_key) THEN <<"queue.bind">> ELSE <<>>)

\* The topology a complete connect() leaves on its connection.
CompleteTopology(c) ==
    /\ c.open /\ c.channel /\ c.prefetch = PrefetchCount /\ c.exchange
    /\ c.queue = Truthy(queue_name)
    /\ c.bound = (Truthy(queue_name) /\ Truthy(routing_key))

\* --- the envelope as the specification reads it
IsEnvelope(body) == body.kind = "object" /\ "metadata" \in DOMAIN body.obj
TypeOf(body) == Get(body.obj.metadata, "messageType")
DataOf(body) == Get(body.obj.metadata, "data")

\* delivery i is handed to _process_message in this step
Arrives(i) == deliveries[i].state = "none" /\ deliveries'[i].state # "none"
\* the handler of delivery i comes back in this step
Returns(i) == deliveries[i].state = "handling" /\ deliveries'[i].state = "done"

\* C1 (stated as claimed; the code violates it): a message is put on the wire
\* only if, in the same publish call, the payload was validated against its
\* schema and the envelope was built and validated before the publish.
C1_PublishOnlyValidated ==
    (last.op = "publish_message" /\ "exchange.publish" \in Range(last.calls)) =>
        /\ Before(last.calls, "validator.validate_message", "exchange.publish")
        /\ Before(last.calls, "validator.create_envelope", "exchange.publish")

\* C2 (stated as claimed; the code violates it): a delivery whose envelope has
\* metadata.messageType = T and metadata.data = D, arriving while a handler is
\* registered for T, has that handler invoked once with D, and is acknowledged
\* when the handler comes back.
C2_DispatchMetadataData ==
    [][\A i \in 1..MaxDeliveries :
        LET d == deliveries'[i] IN
        (IsEnvelope(d.body) /\ Truthy(TypeOf(d.body)) /\ DataOf(d.body) # None) =>
          /\ (Arrives(i) /\ Get(message_handlers, TypeOf(d.body)) # None) =>
                /\ d.state = "handling" /\ d.steps = <<"handler">>
                /\ d.handler = message_handlers[TypeOf(d.body)]
                /\ d.payload = DataOf(d.body)
          /\ Returns(i) => d.steps = <<"handler", "ack">>]_vars

\* C3 (stated as claimed; the code violates it): an envelope built by
\* create_envelope(T, D, ...), serialized as publish_message does and handed to
\* the delivery pipeline while a handler is registered for T, reaches the
\* handler with a payload equal to D.
C3_RoundTrip ==
    [][\A i \in 1..MaxDeliveries : \A e \in CreatedEnvelopes :
        (Arrives(i) /\ deliveries'[i].body = Dumps(e)
            /\ Get(message_handlers, e.metadata.messageType) # None) =>
          /\ deliveries'[i].steps = <<"handler">>
          /\ deliveries'[i].payload = e.metadata.data]_vars

\* C4: every delivery whose processing has ended was acknowledged or rejected
\* exactly once, whatever the outcome; while the handler is still running it
\* has been neither, so it is never acknowledged twice.
Settled(d) == Count(d.steps, "ack") + Count(d.steps, "reject")

C4_AckOrRejectExactlyOnce ==
    \A i \in 1..MaxDeliveries :
        /\ deliveries[i].state = "done" => Settled(deliveries[i]) = 1
        /\ deliveries[i].state = "handling" => Settled(deliveries[i]) = 0
        /\ deliveries[i].state = "none" => deliveries[i].steps = <<>>

C4_Witness ==
    \E i, j \in 1..MaxDeliveries :
        /\ deliveries[i].outcome = "handler_error"
        /\ deliveries[i].steps = <<"handler", "ack">>
        /\ deliveries[j].outcome = "decode_error"
        /\ deliveries[j].steps = <<"ack">>

\* C5 (stated as claimed; the code violates it): a delivery that is not UTF-8
\* JSON, or has no metadata, no metadata.messageType, no handler registered for
\* its type, or no payload (metadata.data), invokes no handler and is
\* acknowledged; it is never rejected.
Discarded(body, handlers) ==
    \/ ~IsEnvelope(body)
    \/ TypeOf(body) = None
    \/ Get(handlers, TypeOf(body)) = None
    \/ DataOf(body) = None

C5_MalformedAckedNoHandler ==
    [][\A i \in 1..MaxDeliveries :
        (Arrives(i) /\ Discarded(deliveries'[i].body, message_handlers)) =>
            /\ deliveries'[i].state = "done"
            /\ deliveries'[i].steps = <<"ack">>]_vars

\* C6: when a handler raises, the exception does not leave _process_message
\* (the delivery is acknowledged, not rejected), the delivery was dispatched
\* to a handler once only, and the consumer stays registered on its open
\* connection, so later deliveries are still processed.
C6_HandlerErrorAckedOnce ==
    \A i \in 1..MaxDeliveries :
        deliveries[i].outcome = "handler_error" =>
            /\ deliveries[i].state = "done"
            /\ deliveries[i].steps = <<"handler", "ack">>
            /\ Live(conns, deliveries[i].channel)
            /\ conns[deliveries[i].channel].consumers > 0

C6_Witness ==
    \E i, j \in 1..MaxDeliveries :
        /\ i < j
        /\ deliveries[i].outcome = "handler_error"
        /\ deliveries[j].outcome = "processed"
        /\ deliveries[j].steps = <<"handler", "ack">>

\* C7 (stated as claimed; the code violates it): a handler is invoked only
\* after the decoded message was validated.
C7_ValidatedBeforeHandler ==
    \A i \in 1..MaxDeliveries :
        "handler" \in Range(deliveries[i].steps) =>
            Before(deliveries[i].steps, "validator.validate_message", "handler")

\* C8 (stated as claimed; the code violates it): after a connect() that raised,
\* the client is Disconnected and the connection that attempt opened, if it
\* got that far, is not left open.
C8_FailedConnectLeavesNothing ==
    (last.op = "connect" /\ last.error # None) =>
        /\ ~is_connected
        /\ Len(last.calls) > 1 => ~conns[Len(conns)].open

\* C9 (stated as claimed; the code violates it): disconnect() on a client that
\* holds no open connection issues no close, changes nothing and raises nothing.
C9_DisconnectIdempotent ==
    [][(Disconnect /\ ~Live(conns, connection)) =>
        /\ last'.calls = <<>>
        /\ last'.error = None
        /\ UNCHANGED <<client, conns>>]_vars

\* C10: publish on a client that is not connected runs a complete connect()
\* first, and then sends exactly one persistent message with the given routing
\* key to the exchange declared on the new connection; publish on a connected
\* client sends exactly one persistent message on its exchange and makes no
\* connection.
SentBy(rk, ex) ==
    /\ Len(wire') = Len(wire) + 1
    /\ SubSeq(wire', 1, Len(wire)) = wire
    /\ wire'[Len(wire')].routing_key = rk
    /\ wire'[Len(wire')].exchange = ex
    /\ wire'[Len(wire')].delivery_mode = "PERSISTENT"

C10_LazyConnectOnPublish ==
    [][PublishMessage =>
        IF is_connected
        THEN /\ last'.calls = <<"exchange.publish">>
             /\ last'.error = None
             /\ conns' = conns
             /\ SentBy(last'.args[1], exchange)
        ELSE last'.error = None =>
             /\ last'.calls = ConnectCalls \o <<"exchange.publish">>
             /\ Len(conns') = Len(conns) + 1
             /\ SubSeq(conns', 1, Len(conns)) = conns
             /\ CompleteTopology(conns'[Len(conns')])
             /\ is_connected'
             /\ SentBy(last'.args[1], Len(conns'))]_vars

C10_Witness ==
    /\ last.op = "publish_message"
    /\ last.error = None
    /\ last.calls = ConnectCalls \o <<"exchange.publish">>
    /\ Len(wire) = 1
    /\ wire[1].exchange = Len(conns)
    /\ wire[1].routing_key = last.args[1]

\* C12: a connect() that succeeded issued, in this order, connect_robust,
\* connection.channel, set_qos(10), declare_exchange (topic, durable), then
\* declare_queue (quorum, durable, not auto-delete) exactly when a queue name
\* is configured, then queue.bind exactly when a queue name and a routing key
\* are configured; a connect() that raised leaves the client Disconnected, and
\* a Connected client holds the handles of one open connection that carries
\* all of that topology.
DeclaredAsSpecified(c) ==
    /\ c.exchange_args.durable /\ c.exchange_args.type = "topic"
    /\ c.queue => /\ c.queue_args.durable
                  /\ ~c.queue_args.auto_delete
                  /\ c.queue_args.queue_type = "quorum"

C12_ConnectTopology ==
    /\ (last.op = "connect" /\ last.error = None) =>
            last.calls = ConnectCalls /\ is_connected
    /\ (last.op = "connect" /\ last.error # None) => ~is_connected
    /\ is_connected =>
            /\ connection \in DOMAIN conns
            /\ channel = connection /\ exchange = connection
            /\ queue = (IF queue_name # None THEN connection ELSE 0)
            /\ CompleteTopology(conns[connection])
            /\ DeclaredAsSpecified(conns[connection])

C12_Witness ==
    /\ last.op = "connect" /\ last.error = None /\ is_connected
    /\ queue_name # None /\ routing_key # None
    /\ last.calls[Len(last.calls)] = "queue.bind"
    /\ conns[connection].bound

\* C15: when the connect() that publish_message runs on a client that is not
\* connected does not complete, the call raises, nothing is put on the wire,
\* the client is still Disconnected, and connect_robust was called once only.
LazyConnectFailed ==
    /\ ~is_connected
    /\ \/ Len(conns') = Len(conns)
       \/ ~CompleteTopology(conns'[Len(conns')])

C15_PublishConnectFailure ==
    [][(PublishMessage /\ LazyConnectFailed) =>
        /\ last'.error # None
        /\ wire' = wire
        /\ "exchange.publish" \notin Range(last'.calls)
        /\ ~is_connected'
        /\ Count(last'.calls, "connect_robust") = 1
        /\ Len(conns') <= Len(conns) + 1]_vars

C15_Witness ==
    /\ last.op = "publish_message" /\ last.error = "ChannelError"
    /\ ~is_connected /\ wire = <<>>
    /\ last.calls = <<"connect_robust", "connection.channel", "channel.set_qos">>

\* C13 (stated as claimed; the code violates it): the client moves along
\* Disconnected -> Connecting -> Connected -> (Consuming) -> Disconnected only:
\* a connection is opened only by a client that is Disconnected, and a
\* Consuming client stays Consuming until it is Disconnected; a connect that
\* brings the client back to Connected leaves it with the exchange and the
\* queue of the connection just opened, and every publish and every consume
\* after it goes to the handles of the client's current, open connection.
ClientState ==
    IF ~is_connected THEN "Disconnected"
    ELSE IF Live(conns, queue) /\ conns[queue].consumers > 0 THEN "Consuming"
    ELSE "Connected"

ConsumersOn(cs, n) == IF n \in DOMAIN cs THEN cs[n].consumers ELSE 0

C13_Lifecycle ==
    [][/\ Len(conns') > Len(conns) => ClientState = "Disconnected"
       /\ (ClientState = "Consuming" /\ is_connected') => ClientState' = "Consuming"
       /\ (~is_connected /\ is_connected') =>
            /\ Len(conns') = Len(conns) + 1
            /\ connection' = Len(conns') /\ exchange' = Len(conns')
            /\ queue_name # None => queue' = Len(conns')
            /\ CompleteTopology(conns'[Len(conns')])
       /\ Len(wire') > Len(wire) =>
            /\ wire'[Len(wire')].exchange = connection'
            /\ Live(conns', connection')
       /\ \A n \in DOMAIN conns' :
            ConsumersOn(conns', n) > ConsumersOn(conns, n) =>
                n = connection' /\ n = queue' /\ conns'[n].open]_vars

\* C11 (stated as claimed; the code violates it): start_consuming() on a client
\* constructed without a queue name raises, with ValueError("Queue is not
\* declared") once it is connected, and registers no consumer; and a delivery
\* is handed to _process_message only while the client holds a declared queue
\* and is Connected.
C11_ConsumeNeedsQueue ==
    [][/\ (StartConsuming /\ queue_name = None) =>
            /\ last'.error = "ValueError" \/ (last'.error # None /\ LazyConnectFailed)
            /\ \A n \in DOMAIN conns' : conns'[n].consumers = 0
       /\ \A i \in 1..MaxDeliveries : Arrives(i) =>
            /\ is_connected
            /\ Live(conns, queue) /\ conns[queue].queue]_vars

\* C14 (stated as claimed; the code violates it): after disconnect(), and until
\* the next call of the API, no delivery is handed to _process_message; the
\* disconnect leaves the deliveries whose handler is running as they are, and
\* each of them goes on to its end and is settled.
C14_NoDeliveryAfterDisconnect ==
    [][/\ last.op = "disconnect" => \A i \in 1..MaxDeliveries : ~Arrives(i)
       /\ Disconnect => deliveries' = deliveries
       /\ \A i \in 1..MaxDeliveries : deliveries[i].state = "handling" =>
            \/ deliveries'[i] = deliveries[i]
            \/ /\ deliveries'[i].state = "done"
               /\ Settled(deliveries'[i]) = 1]_vars

\* --- the schema store as the specification reads it
\* the load of this path succeeds: from the cache, or the file parses
FileLoads(p) == p \in DOMAIN schema_cache \/ disk[p].kind \in {"object", "array"}
\* the document that load gives
Document(p) == IF p \in DOMAIN schema_cache THEN schema_cache[p] ELSE Parsed(disk[p])
\* the load of this path fails because the file is missing or is not JSON
MissingOrMalformed(p) ==
    p \notin DOMAIN schema_cache /\ disk[p].kind \in {"missing", "bad_json"}
\* the bundle has definitions[t], in exactly this case
Defines(doc, t) ==
    /\ doc # JsonArray
    /\ "definitions" \in DOMAIN doc
    /\ t \in DOMAIN doc.definitions
\* a call of the validator is made in this step (each call turns the tick)
ValidatorCall == vlast'.tick # vlast.tick
\* get_message_schema is called in this step
Resolves == ValidatorCall /\ vlast'.op = "get_message_schema"

\* C16: get_message_schema returns the document of
\* mailing/{message_type.lower()}.json whenever that file loads, also when the
\* bundle defines the type; it returns definitions[message_type] of
\* mailing/email_messages.json, under the type's exact name, when the per-type
\* file is missing or malformed and the bundle loads and defines the type; and
\* it returns a schema in no other case.
C16_ResolutionOrder ==
    [][Resolves =>
        LET t == vlast'.args[2] IN
        /\ FileLoads(PerTypePath) =>
                /\ vlast'.error = None
                /\ vlast'.via = "per_type"
                /\ vlast'.result = Document(PerTypePath)
        /\ (/\ MissingOrMalformed(PerTypePath)
            /\ FileLoads(BundlePath)
            /\ Defines(Document(BundlePath), t)) =>
                /\ vlast'.error = None
                /\ vlast'.via = "legacy"
                /\ vlast'.result = Document(BundlePath).definitions[t]
        /\ vlast'.error = None =>
                \/ FileLoads(PerTypePath)
                \/ /\ MissingOrMalformed(PerTypePath)
                   /\ FileLoads(BundlePath)
                   /\ Defines(Document(BundlePath), t)]_vars

C16_Witness ==
    /\ vlast.op = "get_message_schema" /\ vlast.args[2] = "SuccessEmail"
    /\ vlast.via = "per_type" /\ vlast.result = SchemaV1
    /\ disk[BundlePath] = Dumps(Bundle)
    /\ BundlePath \in DOMAIN schema_cache
    /\ resolved["successemail"].via = "none"

\* C17 (stated as claimed; the code violates it): when the per-type file is
\* missing or malformed and the bundle is missing, malformed or has no
\* definitions[message_type], get_message_schema raises ValueError (message
\* type not found), no other exception, and returns no schema.
C17_MissingType ==
    [][Resolves =>
        LET t == vlast'.args[2] IN
        (/\ MissingOrMalformed(PerTypePath)
         /\ \/ MissingOrMalformed(BundlePath)
            \/ FileLoads(BundlePath) /\ ~Defines(Document(BundlePath), t)) =>
            /\ vlast'.error = "ValueError"
            /\ vlast'.result = NoDoc]_vars

\* C18 (as claimed): a get_message_schema that returns a schema for a message
\* type it has returned a schema for before returns an equal document, and
\* opens no file.
C18_SecondCallReadsNothing ==
    [][Resolves =>
        LET t == vlast'.args[2] IN
        (vlast'.error = None /\ resolved[t].via # "none") =>
            /\ vlast'.result = resolved[t].doc
            /\ vlast'.reads = <<>>]_vars

\* C18 (amended): a get_message_schema that returns a schema for a message
\* type by the lookup that gave its schema before (the per-type file, or the
\* bundle) returns an equal document and does not open the file the schema
\* comes from: by the per-type file it opens no file; by the bundle it opens
\* the per-type file again, and that file only.
C18_SecondCallFromCache ==
    [][Resolves =>
        LET t == vlast'.args[2] IN
        (vlast'.error = None /\ resolved[t].via = vlast'.via) =>
            /\ vlast'.result = resolved[t].doc
            /\ vlast'.via = "per_type" => vlast'.reads = <<>>
            /\ vlast'.via = "legacy" => vlast'.reads = <<PerTypePath>>]_vars

C18_Witness ==
    /\ vlast.op = "get_message_schema" /\ vlast.error = None
    /\ vlast.via = "legacy" /\ vlast.result = LegacySchema
    /\ vlast.reads = <<PerTypePath>>
    /\ disk[PerTypePath] = BadJson

\* C19: a call of the validator opens only files that are not in the cache;
\* a file it fails to load (missing, not JSON, unreadable) gets no cache
\* entry, a file it loads gets one, and the entries there were stay as they
\* were; a path that is not in the cache is opened again by the next call
\* that asks for it, and is then loaded if the file is now good.
FailsToLoad(file) == file.kind \in {"missing", "bad_json", "unreadable"}

C19_FailedLoadNotCached ==
    [][ValidatorCall =>
        /\ \A p \in DOMAIN schema_cache :
                p \in DOMAIN schema_cache' /\ schema_cache'[p] = schema_cache[p]
        /\ \A p \in Range(vlast'.reads) :
                /\ p \notin DOMAIN schema_cache
                /\ IF FailsToLoad(disk[p])
                   THEN p \notin DOMAIN schema_cache'
                   ELSE p \in DOMAIN schema_cache'
                        /\ schema_cache'[p] = Parsed(disk[p])
        /\ DOMAIN schema_cache' \subseteq DOMAIN schema_cache \cup Range(vlast'.reads)
        /\ (vlast'.op \in {"get_message_schema", "validate_message"}
            /\ PerTypePath \notin DOMAIN schema_cache) =>
                vlast'.reads[1] = PerTypePath
        /\ (vlast'.op \in {"get_message_schema", "validate_message"}
            /\ MissingOrMalformed(PerTypePath)
            /\ BundlePath \notin DOMAIN schema_cache) =>
                vlast'.reads = <<PerTypePath, BundlePath>>
        /\ (vlast'.op = "create_envelope" /\ EnvelopePath \notin DOMAIN schema_cache) =>
                vlast'.reads = <<EnvelopePath>>]_vars

C19_Witness ==
    /\ resolved["SuccessEmail"].via = "legacy"
    /\ vlast.op = "get_message_schema" /\ vlast.args[2] = "successemail"
    /\ vlast.error = None /\ vlast.via = "per_type"
    /\ vlast.reads = <<PerTypePath>>
    /\ PerTypePath \in DOMAIN schema_cache

\* C20: in every step, whatever is called and whatever happens to the files,
\* every entry of the cache stays in the cache with the same document, and no
\* call opens the file of a path that is in the cache.
C20_CacheOnlyGrows ==
    [][/\ \A p \in DOMAIN schema_cache :
            p \in DOMAIN schema_cache' /\ schema_cache'[p] = schema_cache[p]
       /\ ValidatorCall => Range(vlast'.reads) \cap DOMAIN schema_cache = {}]_vars

C20_Witness ==
    /\ vlast.op = "validate_message" /\ vlast.error = None
    /\ vlast.reads = <<>>
    /\ schema_cache[PerTypePath] = SchemaV1
    /\ disk[PerTypePath] = Dumps(SchemaV2)
    /\ disk[EnvelopePath] = Missing /\ EnvelopePath \in DOMAIN schema_cache

\* A call of create_envelope with all its arguments, as the last call
Creates == ValidatorCall /\ vlast'.op = "create_envelope"
Built == vlast.op = "create_envelope" /\ Len(vlast.args) = 5
Returned == Built /\ vlast.error = None
OptionalKeys == <<"correlationId", "causationId", "sender">>
OptionalArg(i) == vlast.args[i + 2]
EnvelopeCached(cache) == EnvelopePath \in DOMAIN cache

\* C21: the envelope schema has a cache key of its own: for every domain
\* (the empty one included) and message type, get_message_schema neither
\* reads envelope.json, nor returns the envelope schema's cache entry, nor
\* creates or overwrites that entry; and create_envelope loads nothing but
\* envelope.json.
C21_EnvelopeKeyReserved ==
    [][/\ Resolves =>
            /\ EnvelopePath \notin Range(vlast'.reads)
            /\ EnvelopeCached(schema_cache') <=> EnvelopeCached(schema_cache)
            /\ EnvelopeCached(schema_cache) =>
                    /\ schema_cache'[EnvelopePath] = schema_cache[EnvelopePath]
                    /\ vlast'.error = None =>
                            vlast'.result # schema_cache[EnvelopePath]
       /\ Creates => Range(vlast'.reads) \subseteq {EnvelopePath}]_vars

\* C22 as stated: an envelope returned by create_envelope has each of
\* correlationId, causationId and sender exactly when the caller passed a
\* value for it (anything but None), with that value, and always has the
\* message type and data passed and version "1.0".
C22_OptionalIffSupplied ==
    Returned =>
        LET metadata == vlast.result.metadata
        IN  /\ \A i \in 1..3 :
                    /\ OptionalKeys[i] \in DOMAIN metadata <=> OptionalArg(i) # None
                    /\ OptionalKeys[i] \in DOMAIN metadata =>
                            metadata[OptionalKeys[i]] = OptionalArg(i)
            /\ metadata.messageType = vlast.args[1]
            /\ metadata.data = vlast.args[2]
            /\ metadata.version = "1.0"

\* C22 amended: an envelope returned by create_envelope has each of
\* correlationId, causationId and sender exactly when the caller passed a
\* non-empty value for it, with that value (None and the empty string are
\* both left out), and always has the message type and data passed and
\* version "1.0".
C22_OptionalIffNonEmpty ==
    Returned =>
        LET metadata == vlast.result.metadata
        IN  /\ \A i \in 1..3 :
                    /\ OptionalKeys[i] \in DOMAIN metadata <=>
                            OptionalArg(i) \notin {None, ""}
                    /\ OptionalKeys[i] \in DOMAIN metadata =>
                            metadata[OptionalKeys[i]] = OptionalArg(i)
            /\ metadata.messageType = vlast.args[1]
            /\ metadata.data = vlast.args[2]
            /\ metadata.version = "1.0"

C22_Witness ==
    /\ Returned
    /\ OptionalArg(1) = "corr-123"
    /\ OptionalArg(2) = None
    /\ OptionalArg(3) = ""

\* C23: create_envelope returns an envelope only if it conforms to the
\* envelope schema it loaded; when the envelope built does not conform (data
\* that is no object, an optional field that is no string) the call raises
\* jsonschema's ValidationError and returns nothing.
C23_ReturnedEnvelopeConforms ==
    Built =>
        /\ vlast.error = None =>
                /\ EnvelopeCached(schema_cache)
                /\ Conforms(vlast.result, schema_cache[EnvelopePath])
        /\ /\ EnvelopeCached(schema_cache)
           /\ \/ vlast.args[2] = None
              \/ \E i \in 1..3 : OptionalArg(i) = Int42
           => vlast.error = "ValidationError" /\ vlast.result = NoDoc

C23_Witness ==
    /\ Built
    /\ OptionalArg(3) = Int42
    /\ vlast.error = "ValidationError"

\* a call of register_handler that is not a repetition of the call before it
Registers ==
    /\ last'.op = "register_handler"
    /\ last' # last \/ message_handlers' # message_handlers

\* C24: register_handler(T, h) makes h the handler of T, whatever was
\* registered for T before, and leaves the handler of every other type as it
\* was; nothing else changes the registry; and a delivery of type T is
\* dispatched to the handler the registry holds for T, which is therefore the
\* one of the last registration for T.
C24_LastRegistrationWins ==
    [][/\ Registers =>
            /\ message_handlers'[last'.args[1]] = last'.args[2]
            /\ \A u \in MsgTypes \ {last'.args[1]} :
                    message_handlers'[u] = message_handlers[u]
       /\ message_handlers' # message_handlers => Registers
       /\ \A i \in 1..MaxDeliveries :
            (Arrives(i) /\ deliveries'[i].state = "handling") =>
                deliveries'[i].handler = message_handlers[TypeOf(deliveries'[i].body)]]_vars

\* Two deliveries of one type, the first dispatched to h1, the second, after
\* h2 was registered for the type, to h2.
C24_Witness ==
    /\ last.op = "register_handler"
    /\ last.args = <<"test_type", "h2">>
    /\ deliveries[1].handler = "h1"
    /\ deliveries[2].handler = "h2"
    /\ deliveries[1].state # "none" /\ deliveries[2].state # "none"
    /\ TypeOf(deliveries[1].body) = "test_type"
    /\ TypeOf(deliveries[2].body) = "test_type"

\* a call of validate_message
Validates == ValidatorCall /\ vlast'.op = "validate_message"

\* C25: validate_message(domain, type, payload) resolves the schema as
\* get_message_schema does from the same state (same reads, same cache, same
\* error when the lookup fails) and validates against that schema: it returns
\* for a payload that has every required field, and raises a ValidationError
\* that names a missing field for a payload that lacks one.
C25_ValidateAgainstResolved ==
    [][Validates =>
        LET r == get_message_schema(Store, vlast'.args[1], vlast'.args[2])
            payload == vlast'.args[3]
        IN  /\ vlast'.reads = r.reads
            /\ schema_cache' = r.schema_cache
            /\ r.error # None => vlast'.error = r.error
            /\ (r.error = None /\ IsDict(r.schema)) =>
                    IF Required(r.schema) \subseteq DOMAIN payload
                    THEN vlast'.error = None
                    ELSE /\ vlast'.error = "ValidationError"
                         /\ vlast'.detail # {}
                         /\ vlast'.detail \subseteq Required(r.schema) \ DOMAIN payload]_vars

C25_Witness ==
    /\ vlast.op = "validate_message"
    /\ vlast.args[3] = [foo |-> "bar"]
    /\ vlast.error = "ValidationError"
    /\ "recipientName" \in vlast.detail

\* the connections of the client that the broker holds open
OpenConnections == {n \in DOMAIN conns : conns[n].open}

\* C27 (stated as claimed; the code violates it): at most one connection
\* opened by the client is open at any time, and none is open after
\* disconnect() has returned.
C27_SingleConnection ==
    /\ Cardinality(OpenConnections) <= 1
    /\ last.op = "disconnect" => OpenConnections = {}

\* the delivery callbacks of the client the broker holds, on any connection
Callbacks == SumOf([n \in DOMAIN conns |-> conns[n].consumers])

\* C30 (stated as claimed; the code violates it): at most one delivery
\* callback of the client is registered on its queue, whatever sequence of
\* start_consuming, disconnect and connect was called.
C30_SingleConsumer == Callbacks <= 1

\* C26 (stated as claimed; the code violates it): on every channel of the
\* client the deliveries handed to the callback and not yet settled never
\* exceed the prefetch count of 10, and a channel that has a consumer had its
\* prefetch count set before.
C26_PrefetchBound ==
    \A n \in DOMAIN conns :
        /\ conns[n].consumers > 0 => conns[n].prefetch = PrefetchCount
        /\ SumOf(conns[n].unacked) <= PrefetchCount

\* every call started so far connects lazily
OnlyLazyCalls ==
    \A t \in Tasks : tasks[t].op \in {None, "publish_message", "start_consuming"}

\* C28 (stated as claimed; the code violates it): when the only calls made
\* on a client are publish_message and start_consuming calls, started in any
\* order and concurrently, one connection is made, and every message is
\* published through the exchange of that connection.
C28_OneLazyConnection ==
    OnlyLazyCalls =>
        /\ Len(conns) <= 1
        /\ \A i \in DOMAIN wire : wire[i].exchange = 1

\* C29 (stated as claimed; the code violates it): whenever _is_connected is
\* True, self.connection is open, and the exchange (and the queue, if one is
\* configured) is declared on that connection and is the one self holds.
C29_ConnectedFlag ==
    is_connected =>
        /\ Live(conns, connection)
        /\ exchange = connection /\ conns[connection].exchange
        /\ Truthy(queue_name) => queue = connection /\ conns[connection].queue

\* C29, the part about close(): the flag is not True while self.connection
\* is closing or closed.
C29_ConnectedWhileClosing == is_connected => Live(conns, connection)

\* C29, the part about the handles: the flag is not True while self holds an
\* exchange that is not on self.connection.
C29_ConnectedStaleExchange ==
    (is_connected /\ Live(conns, connection)) => exchange = connection

====
